---- MODULE Spec2Model ----
(***************************************************************************)
(* Model of the HTTP server of joacomcortez/http-server: the ServeMux      *)
(* routing set up in main, and the handlers getRoot, getHello and          *)
(* getTranslate.                                                           *)
(*                                                                         *)
(* Text is a sequence of one-character strings wherever the code looks     *)
(* inside it (escaping, %d formatting); string literals of the source are  *)
(* kept as single elements of such sequences.                              *)
(*                                                                         *)
(* A body (of a request, or of the upstream reply) is described by what    *)
(* encoding/json's Decoder meets when it reads it:                         *)
(*   first = "readerr"  the reader fails before a value is complete        *)
(*   first = "eof"      no bytes, or white space only                      *)
(*   first = "syntax"   the first value is not well-formed JSON            *)
(*   first = "value"    the first value is well formed: v                  *)
(*   rest               what follows the first value: "none" or "garbage"  *)
(* Decoder.Decode reads exactly one value from the stream and returns as   *)
(* soon as that value is complete; what follows it is never examined.      *)
(***************************************************************************)
EXTENDS Integers, Sequences, FiniteSets, TLC

(***************************************************************************)
(* Bounds of the model.                                                    *)
(***************************************************************************)
MaxConns == 2     \* connections served at the same time
MaxAge == 12      \* largest Age value sent in a request body

Conns == 1..MaxConns

(***************************************************************************)
(* Program constants.                                                      *)
(***************************************************************************)
keyServerAddr == "serverAddr"
StatusOK == 200
StatusBadRequest == 400
StatusInternalServerError == 500

NoAddr == "<nil>"
ListenAddr == "[::]:3333"

(***************************************************************************)
(* JSON values.                                                            *)
(***************************************************************************)
JNull == [k |-> "null"]
JStr(s) == [k |-> "str", s |-> s]
JInt(n) == [k |-> "int", n |-> n]
JFloat == [k |-> "float"]
JArr == [k |-> "arr"]
JObj(f) == [k |-> "obj", f |-> f]

EmptyObj == [x \in {} |-> JNull]

BodyOf(v, rest) == [first |-> "value", v |-> v, rest |-> rest]
BodyEOF == [first |-> "eof", v |-> JNull, rest |-> "none"]
BodySyntax == [first |-> "syntax", v |-> JNull, rest |-> "none"]
BodyReadErr == [first |-> "readerr", v |-> JNull, rest |-> "none"]

\* The whole body is one well-formed JSON document.
ValidJSON(body) == body.first = "value" /\ body.rest = "none"

(***************************************************************************)
(* encoding/json: decoding one member of an object into a struct field.    *)
(* A member that is absent or null leaves the field at its zero value; a   *)
(* member of the wrong JSON type leaves it at zero and reports an          *)
(* UnmarshalTypeError.  A key of obj.f stands for the member Decode       *)
(* matches to the field of that name (it compares names ignoring case);    *)
(* members that match no field are skipped.  "int" is a number literal     *)
(* that fits int, "float" any other number.                                *)
(***************************************************************************)
Has(obj, key) == key \in DOMAIN obj.f

StringField(obj, key) ==
    IF ~Has(obj, key) \/ obj.f[key].k = "null" THEN [err |-> FALSE, val |-> <<>>]
    ELSE IF obj.f[key].k = "str" THEN [err |-> FALSE, val |-> obj.f[key].s]
    ELSE [err |-> TRUE, val |-> <<>>]

IntField(obj, key) ==
    IF ~Has(obj, key) \/ obj.f[key].k = "null" THEN [err |-> FALSE, val |-> 0]
    ELSE IF obj.f[key].k = "int" THEN [err |-> FALSE, val |-> obj.f[key].n]
    ELSE [err |-> TRUE, val |-> 0]

\* The first value of the stream, as Decode sees it: an error unless the
\* value is null (a no-op) or an object.
DecodeFails(body) ==
    \/ body.first # "value"
    \/ body.v.k \notin {"null", "obj"}

ObjectOf(body) == IF body.v.k = "obj" THEN body.v ELSE JObj(EmptyObj)

HelloRequest == [Name |-> <<>>, Age |-> 0, Hobby |-> <<>>]

DecodeHelloRequest(body) ==
    IF DecodeFails(body) THEN [err |-> TRUE, val |-> HelloRequest]
    ELSE LET o == ObjectOf(body)
             n == StringField(o, "Name")
             a == IntField(o, "Age")
             h == StringField(o, "Hobby")
         IN  [err |-> n.err \/ a.err \/ h.err,
              val |-> [Name |-> n.val, Age |-> a.val, Hobby |-> h.val]]

TranslateRequest == [Text |-> <<>>, Target |-> <<>>, Source |-> <<>>]

DecodeTranslateRequest(body) ==
    IF DecodeFails(body) THEN [err |-> TRUE, val |-> TranslateRequest]
    ELSE LET o == ObjectOf(body)
             t == StringField(o, "text")
             g == StringField(o, "target")
             s == StringField(o, "source")
         IN  [err |-> t.err \/ g.err \/ s.err,
              val |-> [Text |-> t.val, Target |-> g.val, Source |-> s.val]]

\* apiResponse without the nesting: translatedText looked up in the outer
\* object.
DecodeApiResponseFlat(body) ==
    IF DecodeFails(body) THEN [err |-> TRUE, val |-> <<>>]
    ELSE StringField(ObjectOf(body), "translatedText")

\* The anonymous struct apiResponse: a member responseData that is an
\* object with a string member translatedText.
DecodeApiResponse(body) ==
    IF DecodeFails(body) THEN [err |-> TRUE, val |-> <<>>]
    ELSE LET o == ObjectOf(body)
         IN  IF ~Has(o, "responseData") \/ o.f["responseData"].k = "null"
             THEN [err |-> FALSE, val |-> <<>>]
             ELSE IF o.f["responseData"].k # "obj"
             THEN [err |-> TRUE, val |-> <<>>]
             ELSE StringField(o.f["responseData"], "translatedText")

(***************************************************************************)
(* fmt.Sprintf: the verb %d, and the greeting of getHello.                 *)
(***************************************************************************)
DigitChars == <<"0", "1", "2", "3", "4", "5", "6", "7", "8", "9">>

RECURSIVE FormatUint(_)
FormatUint(n) ==
    IF n < 10 THEN <<DigitChars[n + 1]>>
    ELSE FormatUint(n \div 10) \o <<DigitChars[(n % 10) + 1]>>

FormatInt(n) == IF n < 0 THEN <<"-">> \o FormatUint(-n) ELSE FormatUint(n)

\* Greeting with the arguments of %s in the wrong order.
GreetingSwapped(req) ==
    <<"Hello, ">> \o req.Hobby \o <<"! You are ">> \o FormatInt(req.Age)
        \o <<" years old and enjoy ">> \o req.Name \o <<".\n">>

Greeting(req) ==
    <<"Hello, ">> \o req.Name \o <<"! You are ">> \o FormatInt(req.Age)
        \o <<" years old and enjoy ">> \o req.Hobby \o <<".\n">>

(***************************************************************************)
(* url.QueryEscape and the upstream URL of getTranslate.                   *)
(***************************************************************************)
Unreserved == {"H", "i", "a", "e", "n", "s", "o", "l", "b"}

EscapeChar(c) ==
    IF c \in Unreserved THEN <<c>>
    ELSE IF c = " " THEN <<"+">>
    ELSE IF c = "&" THEN <<"%", "2", "6">>
    ELSE IF c = "<" THEN <<"%", "3", "C">>
    ELSE IF c = ">" THEN <<"%", "3", "E">>
    ELSE <<"%", "2", "2">>

RECURSIVE QueryEscape(_)
QueryEscape(s) ==
    IF s = <<>> THEN <<>> ELSE EscapeChar(Head(s)) \o QueryEscape(Tail(s))

apiURL(req) ==
    <<"https://api.mymemory.translated.net/get?q=">> \o QueryEscape(req.Text)
        \o <<"&langpair=">> \o req.Source \o <<"|">> \o req.Target

(***************************************************************************)
(* json.NewEncoder(w).Encode(TranslateResponse{...}): one object with the  *)
(* member translatedText, HTML-escaped, followed by a newline.             *)
(***************************************************************************)
EncodeChar(c) ==
    IF c = "\"" THEN <<"\\", "\"">>
    ELSE IF c = "<" THEN <<"\\", "u", "0", "0", "3", "c">>
    ELSE IF c = ">" THEN <<"\\", "u", "0", "0", "3", "e">>
    ELSE IF c = "&" THEN <<"\\", "u", "0", "0", "2", "6">>
    ELSE <<c>>

RECURSIVE EncodeString(_)
EncodeString(s) ==
    IF s = <<>> THEN <<>> ELSE EncodeChar(Head(s)) \o EncodeString(Tail(s))

TranslateResponse(text) ==
    <<"{", "\"translatedText\"", ":", "\"">> \o EncodeString(text) \o <<"\"", "}", "\n">>

(***************************************************************************)
(* http.ResponseWriter.  status = 0: no header written yet.  headers       *)
(* counts the status lines sent for the request.                           *)
(***************************************************************************)
TextPlain == "text/plain; charset=utf-8"
ApplicationJSON == "application/json"

NewWriter == [status |-> 0, ctype |-> "", body |-> <<>>, headers |-> 0]

SetContentType(wr, ct) == [wr EXCEPT !.ctype = ct]

WriteHeader(wr, code) ==
    IF wr.status # 0 THEN wr
    ELSE [wr EXCEPT !.status = code, !.headers = @ + 1]

\* Write sends the header with status 200 first if none was sent, and
\* a missing Content-Type is sniffed from the data (text here).
Write(wr, data) ==
    LET h == WriteHeader(IF wr.ctype = "" /\ wr.status = 0
                         THEN SetContentType(wr, TextPlain) ELSE wr, StatusOK)
    IN  [h EXCEPT !.body = @ \o data]

httpError(wr, msg, code) ==
    Write(WriteHeader(SetContentType(wr, TextPlain), code), msg \o <<"\n">>)

(***************************************************************************)
(* http.ServeMux: a pattern ending in "/" matches every path it is a       *)
(* prefix of, any other pattern only the equal path; the longest matching  *)
(* pattern wins.  Paths are sequences of "/" and segment names.            *)
(***************************************************************************)
Routes ==
    { [pattern |-> <<"/">>, handler |-> "getRoot"],
      [pattern |-> <<"/", "hello">>, handler |-> "getHello"],
      [pattern |-> <<"/", "translate">>, handler |-> "getTranslate"] }

Matches(pattern, path) ==
    IF pattern[Len(pattern)] = "/"
    THEN Len(pattern) <= Len(path) /\ SubSeq(path, 1, Len(pattern)) = pattern
    ELSE pattern = path

\* The mux taking the first pattern registered that matches.
HandlerShortest(path) ==
    LET m == {r \in Routes : Matches(r.pattern, path)}
        best == CHOOSE r \in m : \A q \in m : Len(r.pattern) <= Len(q.pattern)
    IN  best.handler

Handler(path) ==
    LET m == {r \in Routes : Matches(r.pattern, path)}
        best == CHOOSE r \in m : \A q \in m : Len(q.pattern) <= Len(r.pattern)
    IN  best.handler

(***************************************************************************)
(* Inputs: request bodies, requests and upstream replies.                  *)
(***************************************************************************)
Al == <<"A", "l">>
Go == <<"g", "o">>
Hi == <<"H", "i">>
AandB == <<"a", " ", "&">>
En == <<"e", "n">>
Es == <<"e", "s">>
Hola == <<"H", "o", "l", "a">>
Bold == <<"<", "b", ">">>

Rests == {"none", "garbage"}

\* Objects with the members of keys that are present, each drawn from its
\* own set of values.
ObjectsOver(vals) ==
    UNION { { JObj(f) : f \in { g \in [S -> UNION {vals[k] : k \in S}] :
                                  \A k \in S : g[k] \in vals[k] } }
            : S \in SUBSET (DOMAIN vals) }

HelloValues ==
    ObjectsOver([Name  |-> {JStr(Al), JInt(1)},
                 Age   |-> {JNull, JFloat, JStr(<<"7">>)} \cup {JInt(a) : a \in -1..MaxAge},
                 Hobby |-> {JStr(Go)}])

TranslateValues ==
    ObjectsOver([text   |-> {JStr(<<>>), JStr(Hi), JStr(AandB), JInt(1)},
                 source |-> {JStr(<<>>), JStr(En)},
                 target |-> {JStr(<<>>), JStr(Es)}])

Bodies ==
    {BodyEOF, BodySyntax, BodyReadErr}
        \cup {BodyOf(v, r) : v \in {JNull, JArr} \cup HelloValues \cup TranslateValues,
                             r \in Rests}

Paths ==
    { <<"/">>, <<"/", "hello">>, <<"/", "translate">>,
      <<"/", "hello", "/">>, <<"/", "other">>, <<"/", "translate", "/", "x">> }

Methods == {"GET", "POST"}

\* The query parameters first and second: absent (has = FALSE) or present.
Queries ==
    { [hasFirst |-> FALSE, first |-> "", hasSecond |-> FALSE, second |-> ""],
      [hasFirst |-> TRUE, first |-> "1", hasSecond |-> TRUE, second |-> ""] }

Requests == [method : Methods, path : Paths, query : Queries, body : Bodies]

NoRequest == [method |-> "", path |-> <<>>, query |-> CHOOSE q \in Queries : ~q.hasFirst,
              body |-> BodyEOF]

ApiValues ==
    { JNull, JArr, JObj(EmptyObj),
      JObj([error |-> JStr(Hi)]),
      JObj([responseData |-> JNull]),
      JObj([responseData |-> JStr(Hola)]),
      JObj([responseData |-> JObj(EmptyObj)]),
      JObj([responseData |-> JObj([translatedText |-> JNull])]),
      JObj([responseData |-> JObj([translatedText |-> JInt(1)])]),
      JObj([responseData |-> JObj([translatedText |-> JStr(<<>>)])]),
      JObj([responseData |-> JObj([translatedText |-> JStr(Hola)])]),
      JObj([responseData |-> JObj([translatedText |-> JStr(Bold)])]),
      JObj([responseData |-> JObj([translatedText |-> JStr(Hola), match |-> JInt(1)]),
            responseStatus |-> JInt(200)]) }

ApiBodies ==
    {BodyEOF, BodySyntax, BodyReadErr} \cup {BodyOf(v, r) : v \in ApiValues, r \in Rests}

\* What http.Get returns: an error, or a response with its status and body.
Replies ==
    { [err |-> TRUE, code |-> 0, status |-> "", body |-> BodyEOF] }
        \cup { [err |-> FALSE, code |-> 503, status |-> "503 Service Unavailable",
                body |-> BodyEOF],
               [err |-> FALSE, code |-> 404, status |-> "404 Not Found",
                body |-> BodyOf(JObj([responseData |-> JObj([translatedText |-> JStr(Hola)])]),
                                "none")] }
        \cup { [err |-> FALSE, code |-> StatusOK, status |-> "200 OK", body |-> b] :
               b \in ApiBodies }

NoReply == [err |-> FALSE, code |-> 0, status |-> "", body |-> BodyEOF]

NoLocal == [req |-> TranslateRequest, url |-> <<>>]

(***************************************************************************)
(* State.                                                                  *)
(***************************************************************************)
VARIABLES
    server,      \* "init", "serving" or "exited": where main is
    serverAddr,  \* the value stored under keyServerAddr in the base context
    pc,          \* per connection: "idle", the handler about to run,
                 \* "httpGet" (getTranslate inside http.Get) or "done"
    request,     \* per connection: the request being served
    ctx,         \* per connection: the values of r.Context()
    handler,     \* per connection: the handler the mux chose
    ran,         \* per connection: the handlers invoked for the request
    w,           \* per connection: the ResponseWriter
    local,       \* per connection: req and apiURL of getTranslate
    getCalls,    \* per connection: calls of http.Get made for the request
    reply,       \* per connection: what http.Get returned
    printed      \* per connection: lines printed by the handler

vars == <<server, serverAddr, pc, request, ctx, handler, ran, w, local,
          getCalls, reply, printed>>

Init ==
    /\ server = "init"
    /\ serverAddr = NoAddr
    /\ pc = [i \in Conns |-> "idle"]
    /\ request = [i \in Conns |-> NoRequest]
    /\ ctx = [i \in Conns |-> (keyServerAddr :> NoAddr)]
    /\ handler = [i \in Conns |-> ""]
    /\ ran = [i \in Conns |-> <<>>]
    /\ w = [i \in Conns |-> NewWriter]
    /\ local = [i \in Conns |-> NoLocal]
    /\ getCalls = [i \in Conns |-> 0]
    /\ reply = [i \in Conns |-> NoReply]
    /\ printed = [i \in Conns |-> <<>>]

connVars == <<pc, request, ctx, handler, ran, w, local, getCalls, reply, printed>>

(***************************************************************************)
(* main: ListenAndServe binds the listener and calls BaseContext once,     *)
(* which stores the listener's address in the base context; or it fails    *)
(* and main prints the error and returns.                                  *)
(***************************************************************************)
ListenAndServe ==
    /\ server = "init"
    /\ server' = "serving"
    /\ serverAddr' = ListenAddr
    /\ UNCHANGED connVars

ListenFails ==
    /\ server = "init"
    /\ server' = "exited"
    /\ UNCHANGED <<serverAddr, connVars>>

(***************************************************************************)
(* The server accepts a request on connection i; the request's context     *)
(* derives from the base context and the mux picks the handler.            *)
(***************************************************************************)
ServeHTTP(i, r) ==
    /\ server = "serving"
    /\ pc[i] = "idle"
    /\ request' = [request EXCEPT ![i] = r]
    /\ ctx' = [ctx EXCEPT ![i] = (keyServerAddr :> serverAddr)]
    /\ handler' = [handler EXCEPT ![i] = Handler(r.path)]
    /\ pc' = [pc EXCEPT ![i] = Handler(r.path)]
    /\ UNCHANGED <<server, serverAddr, ran, w, local, getCalls, reply, printed>>

(***************************************************************************)
(* getRoot: reads the query parameters and the body, prints them with the  *)
(* server address, and writes the fixed text.                              *)
(***************************************************************************)
\* getRoot answering 500 when the body cannot be read.
getRootStrict(i) ==
    /\ pc[i] = "getRoot"
    /\ w' = [w EXCEPT ![i] =
           IF request[i].body.first = "readerr"
           THEN httpError(@, <<"could not read body">>, StatusInternalServerError)
           ELSE Write(@, <<"This is my website!\n">>)]
    /\ printed' = [printed EXCEPT ![i] =
           Append(@, [text |-> "got / request", addr |-> ctx[i][keyServerAddr]])]
    /\ ran' = [ran EXCEPT ![i] = Append(@, "getRoot")]
    /\ pc' = [pc EXCEPT ![i] = "done"]
    /\ UNCHANGED <<server, serverAddr, request, ctx, handler, local, getCalls, reply>>

getRoot(i) ==
    /\ pc[i] = "getRoot"
    /\ LET r == request[i]
           readFailed == r.body.first = "readerr"
           line == [text |-> "got / request", addr |-> ctx[i][keyServerAddr],
                    hasFirst |-> r.query.hasFirst, first |-> r.query.first,
                    hasSecond |-> r.query.hasSecond, second |-> r.query.second]
       IN  /\ printed' = [printed EXCEPT ![i] =
                 @ \o (IF readFailed
                       THEN << [text |-> "could not read body", addr |-> ""] >>
                       ELSE << >>)
                   \o << [text |-> line.text, addr |-> line.addr] >>]
           /\ w' = [w EXCEPT ![i] = Write(@, <<"This is my website!\n">>)]
    /\ ran' = [ran EXCEPT ![i] = Append(@, "getRoot")]
    /\ pc' = [pc EXCEPT ![i] = "done"]
    /\ UNCHANGED <<server, serverAddr, request, ctx, handler, local, getCalls, reply>>

(***************************************************************************)
(* getHello: decodes the body into a HelloRequest, rejects a decoding      *)
(* error and a non-positive Age with 400, and writes the greeting.         *)
(***************************************************************************)
getHello(i) ==
    /\ pc[i] = "getHello"
    /\ LET d == DecodeHelloRequest(request[i].body)
       IN  IF d.err
           THEN /\ w' = [w EXCEPT ![i] =
                      httpError(@, <<"Bad Request: invalid JSON">>, StatusBadRequest)]
                /\ UNCHANGED printed
           ELSE IF d.val.Age <= 0
           THEN /\ w' = [w EXCEPT ![i] =
                      httpError(@, <<"Bad Request: Age must be a positive number">>,
                                StatusBadRequest)]
                /\ UNCHANGED printed
           ELSE /\ printed' = [printed EXCEPT ![i] =
                      @ \o << [text |-> "got /hello request", addr |-> ctx[i][keyServerAddr]],
                              [text |-> "Name, Age, Hobby", addr |-> ""] >>]
                /\ w' = [w EXCEPT ![i] = Write(@, Greeting(d.val))]
    /\ ran' = [ran EXCEPT ![i] = Append(@, "getHello")]
    /\ pc' = [pc EXCEPT ![i] = "done"]
    /\ UNCHANGED <<server, serverAddr, request, ctx, handler, local, getCalls, reply>>

(***************************************************************************)
(* getTranslate, up to the call of http.Get: decodes the body into a       *)
(* TranslateRequest, rejects a decoding error and an empty field with 400, *)
(* builds the URL and calls http.Get, in which the handler blocks.         *)
(***************************************************************************)
getTranslate(i) ==
    /\ pc[i] = "getTranslate"
    /\ LET d == DecodeTranslateRequest(request[i].body)
       IN  IF d.err
           THEN /\ w' = [w EXCEPT ![i] =
                      httpError(@, <<"Bad Request: invalid JSON">>, StatusBadRequest)]
                /\ pc' = [pc EXCEPT ![i] = "done"]
                /\ UNCHANGED <<local, getCalls, printed>>
           ELSE IF d.val.Text = <<>> \/ d.val.Source = <<>> \/ d.val.Target = <<>>
           THEN /\ w' = [w EXCEPT ![i] =
                      httpError(@, <<"Bad Request: missing required fields">>,
                                StatusBadRequest)]
                /\ pc' = [pc EXCEPT ![i] = "done"]
                /\ UNCHANGED <<local, getCalls, printed>>
           ELSE /\ local' = [local EXCEPT ![i] = [req |-> d.val, url |-> apiURL(d.val)]]
                /\ printed' = [printed EXCEPT ![i] =
                      Append(@, [text |-> "API URL", addr |-> ""])]
                /\ getCalls' = [getCalls EXCEPT ![i] = @ + 1]
                /\ pc' = [pc EXCEPT ![i] = "httpGet"]
                /\ UNCHANGED w
    /\ ran' = [ran EXCEPT ![i] = Append(@, "getTranslate")]
    /\ UNCHANGED <<server, serverAddr, request, ctx, handler, reply>>

(***************************************************************************)
(* http.Get returns rp to getTranslate on connection i, and the handler    *)
(* runs to its end: 500 for an error, for a status other than 200 and for  *)
(* a body that does not decode; else the translated text as JSON.          *)
(***************************************************************************)
\* What getTranslate writes once http.Get has returned rp.
relay(wr, rp) ==
    LET d == DecodeApiResponse(rp.body)
    IN  IF rp.err
        THEN httpError(wr, <<"Internal Server Error: failed to make request">>,
                       StatusInternalServerError)
        ELSE IF rp.code # StatusOK
        THEN httpError(wr, <<"External API error: ", rp.status>>,
                       StatusInternalServerError)
        ELSE IF d.err
        THEN httpError(wr, <<"Internal Server Error: failed to parse response">>,
                       StatusInternalServerError)
        ELSE Write(SetContentType(wr, ApplicationJSON), TranslateResponse(d.val))

\* getTranslate without the check of resp.StatusCode.
httpGetAnyStatus(i, rp) ==
    /\ pc[i] = "httpGet"
    /\ reply' = [reply EXCEPT ![i] = rp]
    /\ w' = [w EXCEPT ![i] = relay(@, [rp EXCEPT !.code = StatusOK])]
    /\ pc' = [pc EXCEPT ![i] = "done"]
    /\ UNCHANGED <<server, serverAddr, request, ctx, handler, ran, local, getCalls, printed>>

\* getTranslate with apiResponse as a package-level variable: the handler
\* reads what the latest Decode of any connection left there.
httpGetShared(i, rp) ==
    /\ pc[i] = "httpGet"
    /\ reply' = [reply EXCEPT ![i] = rp]
    /\ LET others == {j \in Conns \ {i} : reply[j] # NoReply}
           seen == IF others = {} THEN rp ELSE reply[CHOOSE j \in others : TRUE]
       IN  w' = [w EXCEPT ![i] = relay(@, seen)]
    /\ pc' = [pc EXCEPT ![i] = "done"]
    /\ UNCHANGED <<server, serverAddr, request, ctx, handler, ran, local, getCalls, printed>>

\* getTranslate calling http.Get a second time after a failure.
httpGetRetry(i, rp) ==
    /\ pc[i] = "httpGet"
    /\ IF (rp.err \/ rp.code # StatusOK) /\ getCalls[i] < 2
       THEN /\ getCalls' = [getCalls EXCEPT ![i] = @ + 1]
            /\ UNCHANGED <<reply, w, pc>>
       ELSE /\ reply' = [reply EXCEPT ![i] = rp]
            /\ w' = [w EXCEPT ![i] = relay(@, rp)]
            /\ pc' = [pc EXCEPT ![i] = "done"]
            /\ UNCHANGED getCalls
    /\ UNCHANGED <<server, serverAddr, request, ctx, handler, ran, local, printed>>

httpGet(i, rp) ==
    /\ pc[i] = "httpGet"
    /\ reply' = [reply EXCEPT ![i] = rp]
    /\ w' = [w EXCEPT ![i] = relay(@, rp)]
    /\ pc' = [pc EXCEPT ![i] = "done"]
    /\ UNCHANGED <<server, serverAddr, request, ctx, handler, ran, local, getCalls, printed>>

(***************************************************************************)
(* The response has been sent; the connection is ready for a new request.  *)
(***************************************************************************)
Close(i) ==
    /\ pc[i] = "done"
    /\ pc' = [pc EXCEPT ![i] = "idle"]
    /\ request' = [request EXCEPT ![i] = NoRequest]
    /\ ctx' = [ctx EXCEPT ![i] = (keyServerAddr :> NoAddr)]
    /\ handler' = [handler EXCEPT ![i] = ""]
    /\ ran' = [ran EXCEPT ![i] = <<>>]
    /\ w' = [w EXCEPT ![i] = NewWriter]
    /\ local' = [local EXCEPT ![i] = NoLocal]
    /\ getCalls' = [getCalls EXCEPT ![i] = 0]
    /\ reply' = [reply EXCEPT ![i] = NoReply]
    /\ printed' = [printed EXCEPT ![i] = <<>>]
    /\ UNCHANGED <<server, serverAddr>>

(***************************************************************************)
(* Spec: the server with every request of Requests, one request in flight  *)
(* at a time.  ConcSpec: up to MaxConns requests in flight at once, drawn  *)
(* from ConcRequests.                                                      *)
(***************************************************************************)
AllIdle == \A j \in Conns : pc[j] = "idle"

Handle ==
    \/ \E i \in Conns : getRoot(i)
    \/ \E i \in Conns : getHello(i)
    \/ \E i \in Conns : getTranslate(i)
    \/ \E i \in Conns, rp \in Replies : httpGet(i, rp)
    \/ \E i \in Conns : Close(i)

Next ==
    \/ ListenAndServe
    \/ ListenFails
    \/ AllIdle /\ \E i \in Conns, r \in Requests : ServeHTTP(i, r)
    \/ Handle

Spec == Init /\ [][Next]_vars

ConcBodies ==
    { BodySyntax,
      BodyOf(JObj([Name |-> JStr(Al), Age |-> JInt(MaxAge), Hobby |-> JStr(Go)]), "none"),
      BodyOf(JObj([text |-> JStr(Hi), source |-> JStr(En), target |-> JStr(Es)]), "none") }

ConcRequests ==
    { r \in Requests :
        /\ r.method = "POST"
        /\ r.path \in {<<"/">>, <<"/", "hello">>, <<"/", "translate">>}
        /\ ~r.query.hasFirst
        /\ r.body \in ConcBodies }

ConcNext ==
    \/ ListenAndServe
    \/ ListenFails
    \/ \E i \in Conns, r \in ConcRequests : ServeHTTP(i, r)
    \/ Handle

ConcSpec == Init /\ [][ConcNext]_vars

(***************************************************************************)
(* Vocabulary of the properties: what a body says, read off the body       *)
(* itself and not off the decoders above.                                  *)
(***************************************************************************)
IsObject(body) == body.first = "value" /\ body.v.k = "obj"

Member(body, key) ==
    IF IsObject(body) /\ key \in DOMAIN body.v.f THEN body.v.f[key] ELSE JNull

\* A string member's text; absent and null members count as empty.
TextOf(v) == IF v.k = "str" THEN v.s ELSE <<>>

StringOrMissing(v) == v.k \in {"str", "null"}

RECURSIVE ParseUint(_)
ParseUint(ds) ==
    IF ds = <<>> THEN 0
    ELSE ParseUint(SubSeq(ds, 1, Len(ds) - 1)) * 10
             + (CHOOSE d \in 0..9 : DigitChars[d + 1] = ds[Len(ds)])

IsDecimal(ds) ==
    /\ ds # <<>>
    /\ \A k \in 1..Len(ds) : \E d \in 0..9 : DigitChars[d + 1] = ds[k]
    /\ Len(ds) > 1 => ds[1] # "0"

HexChar(h) ==
    IF h = <<"0", "0", "3", "c">> THEN "<"
    ELSE IF h = <<"0", "0", "3", "e">> THEN ">"
    ELSE IF h = <<"0", "0", "2", "6">> THEN "&"
    ELSE "?"

\* The text a JSON string literal (without its quotes) stands for.
RECURSIVE Unquote(_)
Unquote(s) ==
    IF s = <<>> THEN <<>>
    ELSE IF Head(s) # "\\" THEN <<Head(s)>> \o Unquote(Tail(s))
    ELSE IF Len(s) >= 6 /\ s[2] = "u"
    THEN <<HexChar(SubSeq(s, 3, 6))>> \o Unquote(SubSeq(s, 7, Len(s)))
    ELSE IF Len(s) >= 2 THEN <<s[2]>> \o Unquote(SubSeq(s, 3, Len(s)))
    ELSE <<"?">>

Answered(i, h) == pc[i] = "done" /\ handler[i] = h

\* The body is a well-formed greeting payload with a positive age.
ValidGreeting(body) ==
    /\ IsObject(body)
    /\ StringOrMissing(Member(body, "Name"))
    /\ StringOrMissing(Member(body, "Hobby"))
    /\ Member(body, "Age").k = "int"
    /\ Member(body, "Age").n > 0

\* The text is the greeting for name, age and hobby.
IsGreeting(text, name, age, hobby) ==
    LET ds == SubSeq(text, Len(name) + 3, Len(text) - Len(hobby) - 2)
    IN  /\ IsDecimal(ds)
        /\ ParseUint(ds) = age
        /\ text = <<"Hello, ">> \o name \o <<"! You are ">> \o ds
                      \o <<" years old and enjoy ">> \o hobby \o <<".\n">>

LooksLikeGreeting(text) == Len(text) > 0 /\ text[1] = "Hello, "

(***************************************************************************)
(* C1.  getHello: a request whose body decodes into Name, Age and Hobby    *)
(* with Age > 0 is answered with status 200 and exactly the text           *)
(* "Hello, {name}! You are {age} years old and enjoy {hobby}.\n" built     *)
(* from the name, age and hobby of that request.                           *)
(***************************************************************************)
C1_GreetingExact ==
    \A i \in Conns :
        Answered(i, "getHello") /\ ValidGreeting(request[i].body) =>
            /\ w[i].status = StatusOK
            /\ IsGreeting(w[i].body,
                          TextOf(Member(request[i].body, "Name")),
                          Member(request[i].body, "Age").n,
                          TextOf(Member(request[i].body, "Hobby")))

C1_Witness ==
    \E i \in Conns :
        /\ Answered(i, "getHello")
        /\ ValidGreeting(request[i].body)
        /\ Member(request[i].body, "Age").n >= 10
        /\ TextOf(Member(request[i].body, "Name")) = Al
        /\ TextOf(Member(request[i].body, "Hobby")) = Go
        /\ w[i].status = StatusOK

(***************************************************************************)
(* C2.  getHello: a request whose body is not valid JSON for the greeting  *)
(* schema, and a request whose age is <= 0 (an absent Age included), is    *)
(* answered with status 400 and never with the greeting text.              *)
(***************************************************************************)
\* The body is one JSON document that fits {Name: string, Age: integer,
\* Hobby: string}.
ValidGreetingJSON(body) ==
    /\ ValidJSON(body)
    /\ body.v.k \in {"obj", "null"}
    /\ StringOrMissing(Member(body, "Name"))
    /\ StringOrMissing(Member(body, "Hobby"))
    /\ Member(body, "Age").k \in {"int", "null"}

AgeOf(body) == IF Member(body, "Age").k = "int" THEN Member(body, "Age").n ELSE 0

C2_GreetingRejects ==
    \A i \in Conns :
        /\ Answered(i, "getHello")
        /\ ~ValidGreetingJSON(request[i].body) \/ AgeOf(request[i].body) <= 0
        => /\ w[i].status = StatusBadRequest
           /\ ~LooksLikeGreeting(w[i].body)

(***************************************************************************)
(* C3.  getTranslate: a request whose body is not valid JSON, or in which  *)
(* text, source or target is empty or missing, is answered with status     *)
(* 400.                                                                    *)
(***************************************************************************)
Handled(i, h) == handler[i] = h /\ pc[i] \in {"httpGet", "done"}

HasAllFields(body) ==
    \A key \in {"text", "source", "target"} :
        Member(body, key).k = "str" /\ Member(body, key).s # <<>>

C3_TranslateRejects ==
    \A i \in Conns :
        /\ Handled(i, "getTranslate")
        /\ ~ValidJSON(request[i].body) \/ ~HasAllFields(request[i].body)
        => /\ pc[i] = "done"
           /\ w[i].status = StatusBadRequest

(***************************************************************************)
(* C4.  getTranslate: when the request has non-empty text, source and      *)
(* target and the upstream call returns status 200 with the body           *)
(* {"responseData":{"translatedText": v}}, the response has status 200,    *)
(* Content-Type application/json and a JSON body whose only member         *)
(* translatedText is v.                                                    *)
(***************************************************************************)
HasTranslation(body) ==
    /\ IsObject(body)
    /\ Member(body, "responseData").k = "obj"
    /\ "translatedText" \in DOMAIN Member(body, "responseData").f
    /\ Member(body, "responseData").f["translatedText"].k = "str"

TranslationOf(body) == Member(body, "responseData").f["translatedText"].s

\* The text is a JSON object with the single member translatedText = v.
IsTranslation(text, v) ==
    /\ Len(text) >= 7
    /\ SubSeq(text, 1, 4) = <<"{", "\"translatedText\"", ":", "\"">>
    /\ SubSeq(text, Len(text) - 2, Len(text)) = <<"\"", "}", "\n">>
    /\ Unquote(SubSeq(text, 5, Len(text) - 3)) = v
    /\ \A k \in 5..(Len(text) - 3) :
           text[k] = "\"" => text[k - 1] = "\\"

C4_TranslateRelays ==
    \A i \in Conns :
        /\ Answered(i, "getTranslate")
        /\ HasAllFields(request[i].body)
        /\ ~reply[i].err /\ reply[i].code = StatusOK
        /\ HasTranslation(reply[i].body)
        => /\ w[i].status = StatusOK
           /\ w[i].ctype = ApplicationJSON
           /\ IsTranslation(w[i].body, TranslationOf(reply[i].body))

C4_Witness ==
    \E i \in Conns :
        /\ Answered(i, "getTranslate")
        /\ HasAllFields(request[i].body)
        /\ ~reply[i].err /\ reply[i].code = StatusOK
        /\ HasTranslation(reply[i].body)
        /\ TranslationOf(reply[i].body) = Bold
        /\ w[i].status = StatusOK

(***************************************************************************)
(* C5.  getTranslate: for a request that passed validation, when the       *)
(* outbound GET fails or the upstream answers with a status other than     *)
(* 200, the response has status 500, never 200; for a status other than    *)
(* 200 the error body contains the upstream status text.                   *)
(***************************************************************************)
Contains(text, x) == \E k \in 1..Len(text) : text[k] = x

C5_UpstreamFailure ==
    \A i \in Conns :
        /\ Answered(i, "getTranslate")
        /\ getCalls[i] > 0
        /\ reply[i].err \/ reply[i].code # StatusOK
        => /\ w[i].status = StatusInternalServerError
           /\ ~reply[i].err => Contains(w[i].body, reply[i].status)

C5_Witness ==
    \E i \in Conns :
        /\ Answered(i, "getTranslate")
        /\ getCalls[i] > 0
        /\ ~reply[i].err /\ reply[i].code = 404
        /\ HasTranslation(reply[i].body)
        /\ w[i].status = StatusInternalServerError

(***************************************************************************)
(* C6.  getTranslate: when the upstream answers 200 with a body that is    *)
(* not JSON of the shape {responseData: {translatedText: string}}          *)
(* (malformed JSON, or JSON without that nested member), the response has  *)
(* status 500 and is no 200 translation result.                            *)
(***************************************************************************)
C6_UpstreamBodyRejected ==
    \A i \in Conns :
        /\ Answered(i, "getTranslate")
        /\ getCalls[i] > 0
        /\ ~reply[i].err /\ reply[i].code = StatusOK
        /\ ~ValidJSON(reply[i].body) \/ ~HasTranslation(reply[i].body)
        => w[i].status = StatusInternalServerError

(***************************************************************************)
(* C7.  getRoot: every request it handles, with any method, any query      *)
(* parameters, any body (an empty one and one that cannot be read          *)
(* included), is answered with status 200 and the text                     *)
(* "This is my website!\n".                                                *)
(***************************************************************************)
C7_RootAlwaysOK ==
    \A i \in Conns :
        Answered(i, "getRoot") =>
            /\ w[i].status = StatusOK
            /\ w[i].body = <<"This is my website!\n">>

C7_Witness ==
    \E i \in Conns :
        /\ Answered(i, "getRoot")
        /\ request[i].body.first = "readerr"
        /\ request[i].query.hasFirst
        /\ w[i].status = StatusOK

(***************************************************************************)
(* C8.  Routing: a request to / is dispatched to getRoot, a request to     *)
(* /hello to getHello and a request to /translate to getTranslate,         *)
(* whatever the method; a request is handled by exactly one handler.       *)
(***************************************************************************)
C8_Routing ==
    \A i \in Conns :
        pc[i] # "idle" =>
            /\ request[i].path = <<"/">> => handler[i] = "getRoot"
            /\ request[i].path = <<"/", "hello">> => handler[i] = "getHello"
            /\ request[i].path = <<"/", "translate">> => handler[i] = "getTranslate"
            /\ \A k \in 1..Len(ran[i]) : ran[i][k] = handler[i]
            /\ Len(ran[i]) <= 1
            /\ pc[i] \in {"httpGet", "done"} => Len(ran[i]) = 1

C8_Witness ==
    \E i \in Conns :
        /\ pc[i] = "done"
        /\ request[i].path = <<"/", "translate">>
        /\ request[i].method = "GET"
        /\ ran[i] = <<"getTranslate">>

(***************************************************************************)
(* C9.  Concurrency: while a translation request is blocked in its         *)
(* outbound call, every other request in flight can still take its next    *)
(* step; the server address is the only shared value, fixed once the       *)
(* server listens and the same for every handler; and the response to a    *)
(* request depends only on the request and its own upstream reply:         *)
(* requests with equal input and equal reply get equal responses,          *)
(* however the handlers interleave.                                        *)
(***************************************************************************)
C9_Concurrent ==
    /\ server = "serving" => serverAddr = ListenAddr
    /\ \A i \in Conns : pc[i] # "idle" => ctx[i][keyServerAddr] = ListenAddr
    /\ \A i, j \in Conns :
           i # j /\ pc[i] = "httpGet" =>
               /\ pc[j] = "getRoot" => ENABLED getRoot(j)
               /\ pc[j] = "getHello" => ENABLED getHello(j)
               /\ pc[j] = "getTranslate" => ENABLED getTranslate(j)
               /\ pc[j] = "httpGet" =>
                      \A rp \in Replies : ENABLED httpGet(j, rp)
               /\ pc[j] = "done" => ENABLED Close(j)
    /\ \A i, j \in Conns :
           /\ pc[i] = "done" /\ pc[j] = "done"
           /\ request[i] = request[j]
           /\ reply[i] = reply[j]
           => w[i] = w[j]

C9_Witness ==
    \E i, j \in Conns :
        /\ i # j
        /\ pc[i] = "httpGet"
        /\ Answered(j, "getTranslate")
        /\ request[i] = request[j]
        /\ w[j].status = StatusOK

(***************************************************************************)
(* C10.  Outbound calls of a translation request: a request rejected with  *)
(* 400 issues no outbound GET, every other translation request issues      *)
(* exactly one, not repeated after a network failure, a status other than  *)
(* 200 or a body that does not parse; and the request ends with exactly    *)
(* one response.                                                           *)
(***************************************************************************)
C10_OneCallOneResponse ==
    \A i \in Conns :
        handler[i] = "getTranslate" =>
            /\ getCalls[i] <= 1
            /\ pc[i] = "httpGet" => getCalls[i] = 1 /\ w[i].headers = 0
            /\ pc[i] = "done" =>
                   /\ w[i].headers = 1
                   /\ w[i].status = StatusBadRequest => getCalls[i] = 0
                   /\ w[i].status # StatusBadRequest => getCalls[i] = 1

C10_Witness ==
    \E i \in Conns :
        /\ Answered(i, "getTranslate")
        /\ reply[i].err
        /\ getCalls[i] = 1
        /\ w[i].status = StatusInternalServerError

====
